---- MODULE Spec2Model ----
(***************************************************************************)
(* PolyArt: the low-poly generation pipeline of src/services/lowpoly.ts    *)
(* (generateLowPolyData and its helpers) as a state machine.               *)
(*                                                                         *)
(* Numbers.  The code computes in IEEE doubles.  The model keeps           *)
(* coordinates on the integer pixel lattice (a coordinate the code         *)
(* computes as a quotient is kept as its integer part), areas doubled      *)
(* (Area2 = 2 * area_px), and every comparison against a square root or    *)
(* against pi as the equivalent comparison of integers (pi = PiNum/PiDen). *)
(* The random source of createPRNG, fract(sin(s) * 10000), is a fixed      *)
(* deterministic scramble of a finite state: Scramble.  A draw is the      *)
(* numerator u of the fraction u / RngMod in [0,1).                        *)
(***************************************************************************)
EXTENDS Integers, Sequences, FiniteSets, TLC

VARIABLES
    pc,               \* position of the running operation
    image,            \* the HTMLImageElement handed in: [width, height, data]
    settings,         \* the Settings handed in
    width, height,    \* getScaledImageData's width and height (line 121), then its result's
    imageData,        \* getScaledImageData's pixels: Seq of <<r, g, b>>, row-major
    imageAccessed,    \* drawImage / getImageData has been called on the image
    s,                \* createPRNG's closure variable
    points,           \* the sampled points: Seq of <<x, y>>
    grid, active,     \* samplePoisson: the sparse grid array and the active list
    randIndex, jAttempt, \* samplePoisson: the picked active index, the attempt counter j
    rParam,           \* samplePoisson: [w, h, n] that r, w, cols and rows derive from
    edgeMap,          \* createEdgeMap's Uint8ClampedArray, row-major
    normalized,       \* createEdgeMap: the loop of lines 293-295 has run
    attempts,         \* sampleEdgeAware's attempts
    faces,            \* Array.from(delaunay.trianglePolygons())
    nbrs,             \* what delaunay.neighbors(i) yields, per face index (0-based)
    iFace,            \* the filter loop's i
    triangles,        \* the output triangles
    triangleIndexMap, \* Map<face index, id>, as a set of <<index, id>> in insertion order
    currentId,
    tAdj,             \* the adjacency loop's position in triangles (1-based)
    resolveCalls, rejectCalls, \* calls of the promise's resolve / reject
    result,           \* the value handed to resolve
    history,          \* an earlier resolved invocation, kept to compare:
                      \* <<input, triangles, whether another input was generated since>>
    sourceImage, sourceFileName, lowPolyData, isLoading, error, \* App's state
    preload,          \* the sample image's load: "pending" or "loaded"
    loads,            \* per file, its load in flight: "none", "reading" or "decoding"
    awaited           \* the settled promise handleGenerate awaits, its continuation queued

genVars == <<image, settings, width, height, imageData, imageAccessed>>
rngVars == <<s>>
poissonVars == <<grid, active, randIndex, jAttempt, rParam>>
edgeVars == <<edgeMap, normalized, attempts>>
triVars == <<faces, nbrs>>
filterVars == <<iFace, triangles, triangleIndexMap, currentId, tAdj>>
outVars == <<resolveCalls, rejectCalls, result>>
histVars == <<history>>
appVars == <<sourceImage, sourceFileName, lowPolyData, isLoading, error, preload, loads, awaited>>
vars == <<pc, genVars, rngVars, points, poissonVars, edgeVars, triVars, filterVars, outVars, histVars, appVars>>

\* a number that is NaN in the code
NaN == -1

----------------------------------------------------------------------------
(* Arithmetic helpers standing for Math.* on the values the model keeps.   *)

Min(a, b) == IF a < b THEN a ELSE b
Max(a, b) == IF a > b THEN a ELSE b
Abs(a) == IF a < 0 THEN 0 - a ELSE a

\* Math.round(n / d) for n >= 0, d > 0: the nearest integer, a half rounds up
RoundDiv(n, d) == (2 * n + d) \div (2 * d)

\* Math.ceil(n / d) for n >= 0, d > 0
CeilDiv(n, d) == (n + d - 1) \div d

\* the greatest k >= 0 with k * k * d <= n, which is Math.floor(Math.sqrt(n / d))
\* for n >= 0, d > 0 (by bisection between lo and hi)
RECURSIVE SqrtHi(_, _, _)
SqrtHi(hi, n, d) == IF hi * hi * d > n THEN hi ELSE SqrtHi(2 * hi, n, d)
RECURSIVE SqrtBisect(_, _, _, _)
SqrtBisect(lo, hi, n, d) ==
    IF hi - lo <= 1 THEN lo
    ELSE LET m == (lo + hi) \div 2
         IN  IF m * m * d <= n THEN SqrtBisect(m, hi, n, d) ELSE SqrtBisect(lo, m, n, d)
FloorSqrt(n, d) == SqrtBisect(0, SqrtHi(1, n, d), n, d)

\* the least k >= 0 with k * k * d >= n, which is Math.ceil(Math.sqrt(n / d))
CeilSqrt(n, d) == LET f == FloorSqrt(n, d) IN IF f * f * d = n THEN f ELSE f + 1

\* k * sqrt(m2) compared with a, for k, a >= 0 and m2 >= 1, in numbers that stay
\* below 2^31: with m = floor(sqrt(m2)), m2 = m * m + dlt and a = k * m + rho,
\* k * k * m2 <= a * a  iff  rho >= 0 and k * k * dlt <= 2 * k * m * rho + rho * rho,
\* and rho >= k gives k * sqrt(m2) < k * (m + 1) <= a.  -1: less, 0: equal, 1: greater
SqrtCmp(k, m2, a) ==
    LET m == FloorSqrt(m2, 1)
        dlt == m2 - m * m
        rho == a - k * m
        lhs == k * k * dlt
        rhs == 2 * k * m * rho + rho * rho
    IN  IF rho < 0 THEN 1
        ELSE IF rho >= k /\ k > 0 THEN -1
        ELSE IF lhs < rhs THEN -1 ELSE IF lhs = rhs THEN 0 ELSE 1

\* Math.floor(a / Math.sqrt(m2)) for a >= 0, m2 >= 1
RECURSIVE DivSqrtBisect(_, _, _, _)
DivSqrtBisect(lo, hi, a, m2) ==
    IF hi - lo <= 1 THEN lo
    ELSE LET k == (lo + hi) \div 2
         IN  IF SqrtCmp(k, m2, a) <= 0 THEN DivSqrtBisect(k, hi, a, m2)
             ELSE DivSqrtBisect(lo, k, a, m2)
FloorDivSqrt(a, m2) == DivSqrtBisect(0, (a \div FloorSqrt(m2, 1)) + 1, a, m2)

----------------------------------------------------------------------------
(* createPRNG: s = Math.sin(s) * 10000; return s - Math.floor(s).          *)

RngMod == 16
RngMul == 5
RngInc == 3

\* one call of the closure: the new s, which is also the draw's numerator
Scramble(x) == (RngMul * x + RngInc) % RngMod

\* createPRNG(seed): the closure's initial s
\* (a variant that keeps one state across the closures: SeedStateShared)
SeedStateShared(seed, old) == old
SeedState(seed, old) == seed % RngMod

\* the k-th draw after state x (k >= 1)
RECURSIVE Draw(_, _)
Draw(x, k) == IF k = 1 THEN Scramble(x) ELSE Draw(Scramble(x), k - 1)

----------------------------------------------------------------------------
(* getScaledImageData                                                      *)

\* the dimensions computed at lines 121-130, for an integer maxSize
\* (a variant without the branch of lines 126-129: ScaledDimsNoSwap)
ScaledDimsNoSwap(w, h, maxSize) ==
    IF w > maxSize \/ h > maxSize
    THEN <<maxSize, RoundDiv(h * maxSize, w)>>
    ELSE <<w, h>>
ScaledDims(w, h, maxSize) ==
    IF w > maxSize \/ h > maxSize
    THEN IF w > h
         THEN <<maxSize, RoundDiv(h * maxSize, w)>>
         ELSE <<RoundDiv(w * maxSize, h), maxSize>>
    ELSE <<w, h>>

\* ctx.drawImage(image, 0, 0, width, height) then getImageData: the source
\* resampled to width x height (nearest source pixel), row-major
Resample(img, w, h) ==
    [k \in 1..(w * h) |->
        LET x == (k - 1) % w
            y == (k - 1) \div w
            sx == (x * img.width) \div w
            sy == (y * img.height) \div h
        IN  img.data[sy * img.width + sx + 1]]

----------------------------------------------------------------------------
(* Source images and settings.                                             *)

Black == <<0, 0, 0>>
White == <<255, 255, 255>>
Gray == <<128, 128, 128>>
Dark == <<40, 40, 40>>
Red == <<255, 0, 0>>
Blue == <<0, 0, 255>>

\* an image w x h: every pixel Black ("black") or Red ("red"), or the left
\* half Black and the right half White ("split") or Dark ("dim"), or the left
\* half Red and the right half Blue ("redblue"), or a Gray column between
\* Black and White ("ramp")
MkImage(w, h, kind) ==
    [width |-> w, height |-> h,
     data |-> [k \in 1..(w * h) |->
        LET x == (k - 1) % w
        IN  CASE kind = "black" -> Black
              [] kind = "split" -> IF 2 * x < w THEN Black ELSE White
              [] kind = "dim" -> IF 2 * x < w THEN Black ELSE Dark
              [] kind = "red" -> Red
              [] kind = "redblue" -> IF 2 * x < w THEN Red ELSE Blue
              [] OTHER -> IF 2 * x + 2 < w THEN Black
                          ELSE IF 2 * x < w THEN Gray ELSE White]]

\* edgeWeight is EwNum / EwDen
EwDen == 2

MkSettings(maxSize, pts, sampler, seed, ew, nb) ==
    [maxSize |-> maxSize, points |-> pts, sampler |-> sampler, seed |-> seed,
     edgeWeight |-> ew, colorSpace |-> "rgb", withNeighbors |-> nb]

\* the same settings with another color space ("rgb" or "lab")
InColorSpace(st, cs) == [st EXCEPT !.colorSpace = cs]

----------------------------------------------------------------------------
(* sampleGrid                                                              *)

\* Math.ceil(Math.sqrt(numPoints * ratio)), NaN (a negative radicand)
\* (a variant with Math.round for Math.ceil: GridColsRound)
GridColsRound(w, h, numPoints) ==
    IF numPoints < 0 THEN NaN ELSE (FloorSqrt(4 * numPoints * w, h) + 1) \div 2
GridCols(w, h, numPoints) ==
    IF numPoints < 0 THEN NaN ELSE CeilSqrt(numPoints * w, h)

\* Math.ceil(numPoints / cols), NaN (cols NaN, or 0 / 0)
GridRows(numPoints, cols) ==
    IF cols = NaN \/ cols = 0 THEN NaN ELSE CeilDiv(numPoints, cols)

\* lines 160-163 for cell (i, j) with draws ux, uy: the clamped coordinates
GridPoint(w, h, rows, cols, i, j, ux, uy) ==
    LET \* j * colSize + colSize / 2 + (random() - 0.5) * colSize, over 2 * cols * RngMod
        xn == w * (2 * j * RngMod + RngMod + (2 * ux - RngMod))
        yn == h * (2 * i * RngMod + RngMod + (2 * uy - RngMod))
        x == Min(w, Max(0, xn \div (2 * cols * RngMod)))
        y == Min(h, Max(0, yn \div (2 * rows * RngMod)))
    IN  <<x, y>>

\* the loops of lines 158-166 from cell number c (row-major, 0-based) on
RECURSIVE GridLoop(_, _, _, _, _, _, _)
GridLoop(w, h, rows, cols, c, pts, st) ==
    IF c >= rows * cols THEN [points |-> pts, s |-> st]
    ELSE LET ux == Draw(st, 1)
             uy == Draw(st, 2)
         IN  GridLoop(w, h, rows, cols, c + 1,
                      Append(pts, GridPoint(w, h, rows, cols, c \div cols, c % cols, ux, uy)),
                      uy)

\* sampleGrid: the points and the random source's state afterwards
SampleGrid(w, h, numPoints, st) ==
    LET cols == GridCols(w, h, numPoints)
        rows == GridRows(numPoints, cols)
    IN  IF rows = NaN THEN [points |-> <<>>, s |-> st]
        ELSE GridLoop(w, h, rows, cols, 0, <<>>, st)

----------------------------------------------------------------------------
(* createEdgeMap                                                           *)

\* a store into a Uint8ClampedArray of n / d (n >= 0, d > 0): nearest, a half to even, at most 255
ToUint8Clamped(n, d) ==
    LET q == n \div d
        r2 == 2 * (n % d)
        v == IF r2 > d THEN q + 1
             ELSE IF r2 < d THEN q
             ELSE IF q % 2 = 0 THEN q ELSE q + 1
    IN  Min(255, v)

\* a store into a Uint8ClampedArray of num / Math.sqrt(m2) (num >= 0, m2 >= 1)
ToUint8ClampedOverSqrt(num, m2) ==
    LET q == FloorDivSqrt(2 * num, m2)
        half == q \div 2
        v == IF q % 2 = 0 THEN half
             ELSE IF SqrtCmp(q, m2, 2 * num) = 0
                  THEN (IF half % 2 = 0 THEN half ELSE half + 1)
                  ELSE half + 1
    IN  Min(255, v)

\* line 267
Grayscale(px) == ToUint8Clamped(299 * px[1] + 587 * px[2] + 114 * px[3], 1000)

SobelX == <<-1, 0, 1, -2, 0, 2, -1, 0, 1>>
SobelY == <<-1, -2, -1, 0, 0, 0, 1, 2, 1>>

\* gx * gx + gy * gy at interior pixel (x, y): lines 276-286 before the square root
Gradient2(data, w, x, y) ==
    LET g(kx, ky) == Grayscale(data[(y + ky) * w + (x + kx) + 1])
        wx(kx, ky) == SobelX[(ky + 1) * 3 + (kx + 1) + 1]
        wy(kx, ky) == SobelY[(ky + 1) * 3 + (kx + 1) + 1]
        K == {-1, 0, 1}
        RECURSIVE Sum(_, _)
        Sum(f(_, _), cells) ==
            IF cells = {} THEN 0
            ELSE LET c == CHOOSE c \in cells : TRUE
                 IN  f(c[1], c[2]) + Sum(f, cells \ {c})
        gxv == Sum(LAMBDA kx, ky : g(kx, ky) * wx(kx, ky), K \X K)
        gyv == Sum(LAMBDA kx, ky : g(kx, ky) * wy(kx, ky), K \X K)
    IN  gxv * gxv + gyv * gyv

\* whether (x, y) is an interior pixel: the loops of lines 274-275
Interior(w, h, k) ==
    LET x == (k - 1) % w
        y == (k - 1) \div w
    IN  x >= 1 /\ x < w - 1 /\ y >= 1 /\ y < h - 1

\* gx * gx + gy * gy per pixel, 0 off the interior
Gradients2(data, w, h) ==
    [k \in 1..(w * h) |->
        IF Interior(w, h, k) THEN Gradient2(data, w, (k - 1) % w, (k - 1) \div w) ELSE 0]

\* line 287: the magnitudes stored into the Uint8ClampedArray
RawEdgeMap(data, w, h) ==
    LET g2 == Gradients2(data, w, h)
    IN  [k \in 1..(w * h) |-> Min(255, (FloorSqrt(4 * g2[k], 1) + 1) \div 2)]

\* maxGradient * maxGradient (line 288 compares the magnitudes, not the stored bytes)
MaxGradient2(data, w, h) ==
    LET g2 == Gradients2(data, w, h)
        RECURSIVE MaxOf(_, _)
        MaxOf(k, m) == IF k > w * h THEN m ELSE MaxOf(k + 1, Max(m, g2[k]))
    IN  MaxOf(1, 0)

\* line 292
ShouldNormalize(max2) == max2 > 0

\* line 294 for one entry: (edgeMap[i] / maxGradient) * 255 stored back;
\* 0 / 0 is NaN, which a Uint8ClampedArray stores as 0
NormalizeEntry(e, max2) ==
    IF max2 = 0 THEN 0 ELSE ToUint8ClampedOverSqrt(255 * e, max2)

\* createEdgeMap: the edge map, row-major, 1-based like imageData
CreateEdgeMap(data, w, h) ==
    LET raw == RawEdgeMap(data, w, h)
        max2 == MaxGradient2(data, w, h)
    IN  IF ShouldNormalize(max2)
        THEN [k \in 1..(w * h) |-> NormalizeEntry(raw[k], max2)]
        ELSE raw

----------------------------------------------------------------------------
(* sampleEdgeAware                                                         *)

\* line 248: random() < (1 - edgeWeight) + edgeWeight * edgeValue, with
\* edgeWeight = ew / EwDen, edgeValue = e / 255, random() = u / RngMod
\* (a variant without the base probability 1 - edgeWeight: EdgeAcceptNoBase)
EdgeAcceptNoBase(u, ew, e) == u * EwDen * 255 < RngMod * (ew * e)
EdgeAccept(u, ew, e) == u * EwDen * 255 < RngMod * ((EwDen - ew) * 255 + ew * e)

\* line 241: the loop's condition
\* (a variant that stops one acceptance and one draw later: EdgeLoopGoesOnInclusive)
EdgeLoopGoesOnInclusive(len, att, numPoints) == len <= numPoints /\ att <= numPoints * 10
EdgeLoopGoesOn(len, att, numPoints) == len < numPoints /\ att < numPoints * 10

\* lines 242-251, one pass from the random source's state st: the points,
\* the state afterwards
EdgePass(w, h, em, ew, pts, st) ==
    LET x == (Draw(st, 1) * w) \div RngMod
        y == (Draw(st, 2) * h) \div RngMod
        u == Draw(st, 3)
        e == em[y * w + x + 1]
    IN  [points |-> IF EdgeAccept(u, ew, e) THEN Append(pts, <<x, y>>) ELSE pts,
         s |-> u]

\* the loop of lines 241-252
RECURSIVE EdgeLoop(_, _, _, _, _, _, _, _)
EdgeLoop(w, h, numPoints, em, ew, pts, att, st) ==
    IF ~EdgeLoopGoesOn(Len(pts), att, numPoints)
    THEN [points |-> pts, s |-> st, attempts |-> att]
    ELSE LET r == EdgePass(w, h, em, ew, pts, st)
         IN  EdgeLoop(w, h, numPoints, em, ew, r.points, att + 1, r.s)

SampleEdgeAware(w, h, numPoints, em, ew, st) ==
    EdgeLoop(w, h, numPoints, em, ew, <<>>, 0, st)

----------------------------------------------------------------------------
(* addBorderPoints                                                         *)

\* Math.ceil(Math.sqrt(len) / 2): the least k with 4 * k * k >= len
\* (a variant that leaves the four corners out of len: NumBorderPointsBeforeCorners)
NumBorderPointsBeforeCorners(len) == CeilSqrt(len - 4, 4)
NumBorderPoints(len) == CeilSqrt(len, 4)

RECURSIVE BorderLoop(_, _, _, _, _)
BorderLoop(pts, w, h, n, i) ==
    IF i >= n THEN pts
    ELSE BorderLoop(pts \o << <<(i * w) \div n, 0>>, <<(i * w) \div n, h>>,
                              <<0, (i * h) \div n>>, <<w, (i * h) \div n>> >>,
                    w, h, n, i + 1)

AddBorderPoints(pts, w, h) ==
    LET withCorners == pts \o << <<0, 0>>, <<w, 0>>, <<0, h>>, <<w, h>> >>
    IN  BorderLoop(withCorners, w, h, NumBorderPoints(Len(withCorners)), 1)

----------------------------------------------------------------------------
(* samplePoisson                                                           *)

PiNum == 355
PiDen == 113

\* k: max attempts before rejection (line 172)
KAttempts == 30

\* the cap on the active list's length (the list is unbounded in the code)
MaxActive == 3

\* r * r = R2Num / R2Den, from r = Math.sqrt((width * height) / (numPoints * Math.PI)) * 1.5;
\* numPoints = 0 makes r Infinity (R2Den = 0), numPoints < 0 makes it NaN
R2Num(rp) == 9 * rp.w * rp.h * PiDen
R2Den(rp) == 4 * rp.n * PiNum
RIsNaN(rp) == rp.n < 0

\* d < r for a squared distance d2 (line 212); never true of a NaN r
CloserThanR(rp, d2) == ~RIsNaN(rp) /\ d2 * R2Den(rp) < R2Num(rp)

\* Math.floor(p / w) for a coordinate p >= 0 and the cell size w = r / Math.sqrt(2):
\* the greatest k with k * k * r * r <= 2 * p * p; NaN when r is
CellOf(rp, p) == IF RIsNaN(rp) THEN NaN ELSE FloorSqrt(2 * p * p * R2Den(rp), R2Num(rp))

\* lines 175-176
PoissonCols(rp) == CellOf(rp, rp.w)
PoissonRows(rp) == CellOf(rp, rp.h)

\* a point with NaN coordinates (off every lattice point a candidate can be),
\* and a point at infinity
NaNPoint == <<0 - 2000, 0 - 2000>>
FarPoint == <<0 - 1000, 0 - 1000>>

Dist2(p, q) == (p[1] - q[1]) * (p[1] - q[1]) + (p[2] - q[2]) * (p[2] - q[2])

\* the lattice offsets m * (cos a, sin a) can take, r <= m < 2 * r (lines 193-196),
\* in a fixed order (by dy, then dx)
AnnulusOffsets(rp) ==
    IF RIsNaN(rp) \/ rp.n = 0 THEN <<>>
    ELSE LET b == FloorSqrt(4 * R2Num(rp), R2Den(rp))
             side == 2 * b + 1
             all == [k \in 1..(side * side) |-> <<((k - 1) % side) - b, ((k - 1) \div side) - b>>]
             InRing(o) == LET d2 == o[1] * o[1] + o[2] * o[2]
                          IN  d2 * R2Den(rp) >= R2Num(rp) /\ d2 * R2Den(rp) < 4 * R2Num(rp)
         IN  SelectSeq(all, InRing)

\* the candidate [px, py] of lines 193-196 for draws u1 (the angle) and u2 (the radius)
Candidate(rp, pos, u1, u2) ==
    IF RIsNaN(rp) \/ pos = NaNPoint THEN NaNPoint
    ELSE LET offs == AnnulusOffsets(rp)
         IN  IF offs = <<>> THEN FarPoint
             ELSE LET o == offs[((u1 * RngMod + u2) * Len(offs)) \div (RngMod * RngMod) + 1]
                  IN  <<pos[1] + o[1], pos[2] + o[2]>>

\* every candidate some pair of draws can give from pos
CandidateSet(rp, pos) ==
    IF RIsNaN(rp) \/ pos = NaNPoint THEN {NaNPoint}
    ELSE LET offs == AnnulusOffsets(rp)
         IN  IF offs = <<>> THEN {FarPoint}
             ELSE {<<pos[1] + offs[k][1], pos[2] + offs[k][2]>> : k \in 1..Len(offs)}

\* line 198: the candidate is skipped (no comparison with NaN is true)
OutOfDomain(rp, p) ==
    p # NaNPoint /\ (p[1] < 0 \/ p[1] >= rp.w \/ p[2] < 0 \/ p[2] >= rp.h)

\* row * cols + col (lines 185 and 219): NaN is no array index
GridIndex(rp, p) ==
    IF p = NaNPoint \/ RIsNaN(rp) THEN NaN
    ELSE CellOf(rp, p[2]) * PoissonCols(rp) + CellOf(rp, p[1])

\* grid[idx] = p: an assignment at NaN sets a property that no loop over the array sees
GridStore(g, idx, p) == IF idx = NaN THEN g ELSE (idx :> p) @@ g

\* lines 202-216: ok stays true
NeighborhoodOk(rp, g, p) ==
    IF p = NaNPoint \/ RIsNaN(rp) THEN TRUE
    ELSE LET col == CellOf(rp, p[1])
             row == CellOf(rp, p[2])
             cols == PoissonCols(rp)
             rows == PoissonRows(rp)
         IN  \A dy \in -2..2 : \A dx \in -2..2 :
                LET neighborRow == row + dy
                    neighborCol == col + dx
                    idx == neighborRow * cols + neighborCol
                IN  (neighborRow >= 0 /\ neighborRow < rows /\ neighborCol >= 0 /\ neighborCol < cols
                     /\ idx \in DOMAIN g)
                    => ~CloserThanR(rp, Dist2(g[idx], p))

\* lines 230-232: the defined entries of grid in index order
RECURSIVE GridCollect(_, _, _)
GridCollect(g, k, acc) ==
    IF DOMAIN g = {} \/ \A x \in DOMAIN g : x < k THEN acc
    ELSE GridCollect(g, k + 1, IF k \in DOMAIN g THEN Append(acc, g[k]) ELSE acc)
GridPoints(g) == GridCollect(g, 0, <<>>)

\* active.splice(randIndex, 1), randIndex 0-based
Splice(a, idx) == [k \in 1..(Len(a) - 1) |-> IF k <= idx THEN a[k] ELSE a[k + 1]]

EmptyGrid == [k \in {} |-> <<0, 0>>]

----------------------------------------------------------------------------
(* The triangulator, d3.Delaunay: an external collaborator.                *)

\* the most faces a triangulation handed to the filter has
MaxFaces == 3

\* faces the triangulator may hand over for a width x height canvas: one
\* spanning the canvas with its vertices on the border, one of area exactly 1
\* (clockwise), one of area 1/2, one with a vertex right of the canvas, one
\* with a vertex above it
FaceKinds(w, h) ==
    { << <<0, 0>>, <<w, 0>>, <<0, h>> >>,
      << <<0, 0>>, <<0, 1>>, <<2, 0>> >>,
      << <<0, 0>>, <<1, 0>>, <<0, 1>> >>,
      << <<0, 0>>, <<w + 1, 0>>, <<0, h>> >>,
      << <<0, 0 - 1>>, <<w, 0>>, <<0, h>> >> }

FaceLists(w, h) == UNION {[1..n -> FaceKinds(w, h)] : n \in 0..MaxFaces}

\* a neighbor relation over n faces (0-based indexes): any symmetric one,
\* delaunay.neighbors(i) yielding i's neighbors in ascending order
RECURSIVE AscendingFrom(_, _, _)
AscendingFrom(set, k, n) ==
    IF k >= n THEN <<>>
    ELSE (IF k \in set THEN <<k>> ELSE <<>>) \o AscendingFrom(set, k + 1, n)

NeighborRelations(n) ==
    LET Pairs == {pr \in (0..(n - 1)) \X (0..(n - 1)) : pr[1] < pr[2]}
    IN  { [i \in 0..(n - 1) |->
             AscendingFrom({j \in 0..(n - 1) : <<i, j>> \in g \/ <<j, i>> \in g}, 0, n)]
          : g \in SUBSET Pairs }

\* a triangulator that is a function of the points: a fan around the first point
FanFaces(pts) ==
    IF Len(pts) < 3 THEN <<>>
    ELSE [k \in 1..(Len(pts) - 2) |-> <<pts[1], pts[k + 1], pts[k + 2]>>]

FanNeighbors(n) ==
    [i \in 0..(n - 1) |-> AscendingFrom({i - 1, i + 1} \cap (0..(n - 1)), 0, n)]

----------------------------------------------------------------------------
(* getAverageColor, and d3.lab / d3.rgb as it uses them.  Lab triples are  *)
(* kept in ten-thousandths, XYZ and linear-light values in millionths.     *)

ColorScale == 1000000
ColorRoot == 1000

\* a * b / ColorScale for a, b in millionths, truncated, in numbers that stay
\* below 2^31 (a and b split at ColorRoot)
MulAbs(a, b) ==
    LET ah == a \div ColorRoot
        al == a % ColorRoot
        bh == b \div ColorRoot
        bl == b % ColorRoot
    IN  ah * bh + (ah * bl + al * bh + (al * bl) \div ColorRoot) \div ColorRoot
Mul(a, b) ==
    IF (a < 0) # (b < 0) THEN 0 - MulAbs(Abs(a), Abs(b)) ELSE MulAbs(Abs(a), Abs(b))

\* d3.lab(d3.rgb(r, g, b)) for the colors the images are made of, in ten-thousandths
LabOf(px) ==
    CASE px = Black -> <<0, 0, 0>>
      [] px = White -> <<1000000, 0, 0>>
      [] px = Gray -> <<535850, 0, 0>>
      [] px = Dark -> <<161144, 0, 0>>
      [] px = Red -> <<542917, 808125, 698850>>
      [] px = Blue -> <<295676, 682987, 0 - 1120294>>

\* d3's lab2xyz(t) = t > 6/29 ? t * t * t : 3 * (6/29)^2 * (t - 4/29)
Lab2Xyz(t) ==
    IF t >= 206897 THEN Mul(Mul(t, t), t)
    ELSE Mul(128419, t - 137931)

\* d3's lrgb2rgb(x) = 255 * (x <= 0.0031308 ? 12.92 * x : 1.055 * x^(1/2.4) - 0.055)
\* under Math.round, above the linear piece: GammaSteps[v] is the least x, in
\* millionths, that rounds to v or more
GammaSteps ==
    << 152, 456, 759, 1063, 1366, 1670, 1973, 2277, 2580, 2884,
       3189, 3510, 3849, 4206, 4582, 4977, 5392, 5825, 6278, 6752,
       7245, 7759, 8294, 8849, 9425, 10023, 10643, 11284, 11947, 12632,
       13340, 14071, 14824, 15600, 16399, 17222, 18069, 18939, 19833, 20751,
       21694, 22661, 23653, 24670, 25711, 26778, 27871, 28989, 30132, 31302,
       32498, 33719, 34968, 36243, 37544, 38872, 40228, 41610, 43020, 44458,
       45923, 47415, 48936, 50485, 52062, 53667, 55301, 56964, 58655, 60376,
       62125, 63903, 65711, 67549, 69416, 71313, 73239, 75196, 77183, 79200,
       81248, 83326, 85435, 87575, 89745, 91947, 94180, 96444, 98740, 101067,
       103426, 105816, 108239, 110694, 113180, 115699, 118251, 120835, 123452, 126101,
       128783, 131499, 134247, 137029, 139844, 142692, 145574, 148490, 151439, 154423,
       157440, 160491, 163577, 166697, 169851, 173040, 176264, 179522, 182816, 186144,
       189507, 192906, 196340, 199809, 203314, 206854, 210430, 214042, 217689, 221373,
       225093, 228849, 232641, 236470, 240335, 244237, 248176, 252151, 256163, 260213,
       264299, 268423, 272583, 276782, 281017, 285291, 289602, 293950, 298337, 302761,
       307224, 311725, 316263, 320841, 325456, 330110, 334803, 339535, 344305, 349114,
       353962, 358849, 363775, 368741, 373745, 378790, 383873, 388996, 394159, 399362,
       404605, 409887, 415209, 420572, 425975, 431418, 436901, 442425, 447989, 453594,
       459239, 464926, 470653, 476421, 482230, 488081, 493972, 499905, 505879, 511895,
       517952, 524051, 530191, 536373, 542597, 548863, 555171, 561521, 567913, 574348,
       580825, 587344, 593905, 600510, 607157, 613846, 620579, 627354, 634172, 641033,
       647938, 654885, 661876, 668910, 675988, 683109, 690274, 697482, 704734, 712030,
       719369, 726753, 734181, 741652, 749168, 756728, 764333, 771982, 779675, 787413,
       795195, 803022, 810894, 818811, 826773, 834779, 842831, 850928, 859070, 867257,
       875490, 883768, 892091, 900460, 908875, 917335, 925841, 934393, 942991, 951635,
       960325, 969060, 977843, 986671, 995546, 1004467, 1013434, 1022449, 1031509, 1040617,
       1049771, 1058972, 1068219, 1077514, 1086856, 1096245, 1105680, 1115164, 1124694, 1134272,
       1143897, 1153570, 1163290, 1173058, 1182873, 1192736, 1202647, 1212606, 1222613, 1232668,
       1242771, 1252922, 1263121, 1273369, 1283664, 1294009, 1304401, 1314843, 1325333, 1335871,
       1346458, 1357094, 1367779, 1378513, 1389296, 1400127, 1411008, 1421938, 1432918, 1443946 >>

\* Math.round(lrgb2rgb(x)) for x in millionths: unclamped, below 0 for a
\* negative x and above 255 for an x above 1
LrgbToByte(x) ==
    IF x <= 3130 THEN RoundDiv(32946 * x, 10000000)
    ELSE Cardinality({v \in 1..Len(GammaSteps) : GammaSteps[v] <= x})

\* Math.round of the channels of d3.lab(l, a, b).rgb(), the Lab triple being
\* the sums (in ten-thousandths) over count (lines 364-365)
LabMeanToRgb(sums, count) ==
    LET fy == (((sums[1] + 160000 * count) \div count) * 100) \div 116
        fx == fy + ((sums[2] \div count) * 100) \div 500
        fz == fy - ((sums[3] \div count) * 100) \div 200
        x == Mul(964220, Lab2Xyz(fx))
        y == Lab2Xyz(fy)
        z == Mul(825210, Lab2Xyz(fz))
    IN  << LrgbToByte(Mul(3133856, x) - Mul(1616867, y) - Mul(490615, z)),
           LrgbToByte(0 - Mul(978768, x) + Mul(1916142, y) + Mul(33454, z)),
           LrgbToByte(Mul(71945, x) - Mul(228991, y) + Mul(1405243, z)) >>

\* what lines 343-352 add to c1, c2, c3 for one pixel
ChannelsOf(px, cs) == IF cs = "lab" THEN LabOf(px) ELSE px

\* c1, c2 or c3 (channel c) after the loops of lines 332-356 over the pixels idxs
RECURSIVE SumChannel(_, _, _, _)
SumChannel(data, idxs, c, cs) ==
    IF idxs = {} THEN 0
    ELSE LET k == CHOOSE k \in idxs : TRUE
         IN  ChannelsOf(data[k], cs)[c] + SumChannel(data, idxs \ {k}, c, cs)

\* count after the loops: the pixels of the bounding box that passed line 338
\* (a variant that counts every pixel of the bounding box: CountOfBox)
CountOfBox(inside, box) == Cardinality(box)
CountOf(inside, box) == Cardinality(inside)

\* line 359-360: the pixel at the bounding box's center; undefined channels
\* (NaN) off the end of data
FallbackColor(data, w, minX, maxX, minY, maxY) ==
    LET centerIdx == ((minY + maxY) \div 2) * w + ((minX + maxX) \div 2) + 1
    IN  IF centerIdx \in DOMAIN data THEN data[centerIdx] ELSE <<NaN, NaN, NaN>>

\* getAverageColor for lattice vertices (detT is not 0 for a face the area
\* test let through)
GetAverageColor(vs, data, w, h, cs) ==
    LET p1 == vs[1]
        p2 == vs[2]
        p3 == vs[3]
        minX == Max(0, Min(p1[1], Min(p2[1], p3[1])))
        maxX == Min(w, Max(p1[1], Max(p2[1], p3[1])))
        minY == Max(0, Min(p1[2], Min(p2[2], p3[2])))
        maxY == Min(h, Max(p1[2], Max(p2[2], p3[2])))
        detT == (p2[2] - p3[2]) * (p1[1] - p3[1]) + (p3[1] - p2[1]) * (p1[2] - p3[2])
        \* lambda1 and lambda2 times detT
        n1(x, y) == (p2[2] - p3[2]) * (x - p3[1]) + (p3[1] - p2[1]) * (y - p3[2])
        n2(x, y) == (p3[2] - p1[2]) * (x - p3[1]) + (p1[1] - p3[1]) * (y - p3[2])
        Contained(x, y) ==
            /\ detT # 0
            /\ n1(x, y) * detT >= 0 /\ n2(x, y) * detT >= 0
            /\ (detT - n1(x, y) - n2(x, y)) * detT >= 0
        box == {y * w + x + 1 : x \in minX..(maxX - 1), y \in minY..(maxY - 1)}
        inside == {k \in box : Contained((k - 1) % w, (k - 1) \div w)}
        count == CountOf(inside, box)
        sums == [c \in 1..3 |-> SumChannel(data, inside, c, cs)]
    IN  IF count = 0 THEN FallbackColor(data, w, minX, maxX, minY, maxY)
        ELSE IF cs = "lab" THEN LabMeanToRgb(sums, count)
        ELSE [c \in 1..3 |-> RoundDiv(sums[c], count)]

----------------------------------------------------------------------------
(* The filter loop of generateLowPolyData (lines 53-79).                   *)

\* line 57, for one vertex (a variant that tests x alone: OutsideCanvasNoY)
OutsideCanvasNoY(v, w, h) == v[1] < 0 \/ v[1] > w
OutsideCanvas(v, w, h) == v[1] < 0 \/ v[1] > w \/ v[2] < 0 \/ v[2] > h

AnyOutside(vs, w, h) == \E k \in 1..3 : OutsideCanvas(vs[k], w, h)

\* getCentroid, tripled: <<3 * cx, 3 * cy>>
GetCentroid3(vs) == <<vs[1][1] + vs[2][1] + vs[3][1], vs[1][2] + vs[2][2] + vs[3][2]>>

\* getArea, doubled: 2 * Math.abs(... / 2)
GetArea2(vs) ==
    Abs(vs[1][1] * (vs[2][2] - vs[3][2]) + vs[2][1] * (vs[3][2] - vs[1][2])
        + vs[3][1] * (vs[1][2] - vs[2][2]))

\* line 65: area < 1.0 (a variant with the threshold 0.5: TooSmallHalf; a
\* variant that also discards the threshold itself: TooSmallInclusive)
TooSmallHalf(area2) == area2 < 1
TooSmallInclusive(area2) == area2 <= 2
TooSmall(area2) == area2 < 2

\* the id a surviving face gets (line 70) and the next currentId (line 78)
\* (a variant that numbers by face index: AssignedIdFaceIndex)
AssignedIdFaceIndex(i, cur) == i + 1
AssignedId(i, cur) == cur
NextId(cur) == cur + 1

\* currentId's initial value (line 51)
FirstId == 1

\* triangleIndexMap as the sequence of its entries <<face index, id>>, in insertion order
MapSet(m, i, id) ==
    IF \E k \in 1..Len(m) : m[k][1] = i
    THEN [k \in 1..Len(m) |-> IF m[k][1] = i THEN <<i, id>> ELSE m[k]]
    ELSE Append(m, <<i, id>>)

\* triangleIndexMap.get(i): 0 stands for undefined (both are falsy at line 89)
\* (a variant that takes the face index for the id: MapGetNoLookup)
MapGetNoLookup(m, i) == i + 1
MapGet(m, i) ==
    IF \E k \in 1..Len(m) : m[k][1] = i
    THEN m[CHOOSE k \in 1..Len(m) : m[k][1] = i][2]
    ELSE 0

\* line 83: the first entry whose id is the triangle's; NaN stands for undefined
\* (a variant that takes id - 1 for the face index: OriginalIndexById)
OriginalIndexById(m, id) == id - 1
OriginalIndex(m, id) ==
    IF \E k \in 1..Len(m) : m[k][2] = id
    THEN m[CHOOSE k \in 1..Len(m) : m[k][2] = id /\ \A l \in 1..(k - 1) : m[l][2] # id][1]
    ELSE NaN

\* lines 86-92: the ids pushed for the neighbor indexes the triangulator yields
RECURSIVE PushNeighbors(_, _, _)
PushNeighbors(m, neighborIndexes, acc) ==
    IF neighborIndexes = <<>> THEN acc
    ELSE LET neighborId == MapGet(m, Head(neighborIndexes))
         IN  PushNeighbors(m, Tail(neighborIndexes),
                           IF neighborId # 0 THEN Append(acc, neighborId) ELSE acc)

----------------------------------------------------------------------------
(* generateLowPolyData, step by step.                                      *)

EmptyImage == [width |-> 0, height |-> 0, data |-> <<>>]
NoSettings == MkSettings(0, 0, "grid", 0, 0, FALSE)
NoRParam == [w |-> 0, h |-> 0, n |-> 0]
NoResult == [version |-> "", image |-> [width |-> 0, height |-> 0],
             params |-> [sampler |-> "", points |-> 0, seed |-> 0, color_space |-> ""],
             triangles |-> <<>>]
NoHistory == <<>>

\* what an invocation was called with
InputOf(img, st) == <<img, st>>

\* the locals of one invocation before it runs
LocalsReset ==
    /\ width' = 0 /\ height' = 0 /\ imageData' = <<>> /\ imageAccessed' = FALSE
    /\ points' = <<>>
    /\ grid' = EmptyGrid /\ active' = <<>> /\ randIndex' = 0 /\ jAttempt' = 0
    /\ rParam' = NoRParam
    /\ edgeMap' = <<>> /\ normalized' = FALSE /\ attempts' = 0
    /\ faces' = <<>> /\ nbrs' = <<>>
    /\ iFace' = 0 /\ triangles' = <<>> /\ triangleIndexMap' = <<>>
    /\ currentId' = FirstId /\ tAdj' = 1
    /\ resolveCalls' = 0 /\ rejectCalls' = 0 /\ result' = NoResult

\* a call generateLowPolyData(img, _, st): the promise's executor starts
Invoke(img, st) ==
    /\ pc \in {"idle", "done"}
    /\ pc' = "scale"
    /\ image' = img /\ settings' = st
    /\ LocalsReset
    /\ history' = IF history # NoHistory /\ history[1] # InputOf(img, st)
                  THEN <<history[1], history[2], TRUE>>
                  ELSE history
    /\ UNCHANGED <<s, appVars>>

\* line 26, the canvas context missing: line 119 throws
GetScaledImageDataThrows ==
    /\ pc = "scale"
    /\ pc' = "catch"
    /\ UNCHANGED <<genVars, rngVars, points, poissonVars, edgeVars, triVars, filterVars, outVars, histVars, appVars>>

\* line 26: getScaledImageData; getImageData throws for an empty canvas
GetScaledImageData ==
    /\ pc = "scale"
    /\ LET dims == ScaledDims(image.width, image.height, settings.maxSize)
       IN  /\ imageAccessed' = TRUE
           /\ width' = dims[1] /\ height' = dims[2]
           /\ IF dims[1] = 0 \/ dims[2] = 0
              THEN /\ pc' = "catch"
                   /\ UNCHANGED imageData
              ELSE /\ pc' = "prng"
                   /\ imageData' = Resample(image, dims[1], dims[2])
    /\ UNCHANGED <<image, settings, rngVars, points, poissonVars, edgeVars, triVars, filterVars,
                   outVars, histVars, appVars>>

\* line 27: createPRNG(settings.seed)
CreatePRNG ==
    /\ pc = "prng"
    /\ pc' = "sample"
    /\ s' = SeedState(settings.seed, s)
    /\ UNCHANGED <<genVars, points, poissonVars, edgeVars, triVars, filterVars, outVars, histVars, appVars>>

\* lines 31-33
SampleGridCall ==
    /\ pc = "sample" /\ settings.sampler = "grid"
    /\ LET r == SampleGrid(width, height, settings.points, s)
       IN  points' = r.points /\ s' = r.s
    /\ pc' = "sampled"
    /\ UNCHANGED <<genVars, poissonVars, edgeVars, triVars, filterVars, outVars, histVars, appVars>>

\* lines 37-40
SampleEdgeAwareCall ==
    /\ pc = "sample" /\ settings.sampler = "edge-aware"
    /\ LET em == CreateEdgeMap(imageData, width, height)
           r == SampleEdgeAware(width, height, settings.points, em,
                                settings.edgeWeight, s)
       IN  /\ edgeMap' = em
           /\ normalized' = ShouldNormalize(MaxGradient2(imageData, width, height))
           /\ points' = r.points /\ s' = r.s /\ attempts' = r.attempts
    /\ pc' = "sampled"
    /\ UNCHANGED <<genVars, poissonVars, triVars, filterVars, outVars, histVars, appVars>>

\* line 39: createEdgeMap, then sampleEdgeAware up to its loop (lines 238-240)
EdgeAwareStart ==
    /\ pc = "sample" /\ settings.sampler = "edge-aware"
    /\ edgeMap' = CreateEdgeMap(imageData, width, height)
    /\ normalized' = ShouldNormalize(MaxGradient2(imageData, width, height))
    /\ points' = <<>> /\ attempts' = 0
    /\ pc' = "edge_loop"
    /\ UNCHANGED <<genVars, rngVars, poissonVars, triVars, filterVars, outVars, histVars, appVars>>

\* one pass of the loop of lines 241-252
EdgeAwareDraw ==
    /\ pc = "edge_loop" /\ EdgeLoopGoesOn(Len(points), attempts, settings.points)
    /\ LET r == EdgePass(width, height, edgeMap, settings.edgeWeight, points, s)
       IN  points' = r.points /\ s' = r.s
    /\ attempts' = attempts + 1
    /\ UNCHANGED <<pc, genVars, poissonVars, edgeMap, normalized, triVars, filterVars,
                   outVars, histVars, appVars>>

\* line 253: the loop has ended
EdgeAwareReturn ==
    /\ pc = "edge_loop" /\ ~EdgeLoopGoesOn(Len(points), attempts, settings.points)
    /\ pc' = "sampled"
    /\ UNCHANGED <<genVars, rngVars, points, poissonVars, edgeVars, triVars, filterVars,
                   outVars, histVars, appVars>>

\* samplePoisson, lines 171-186, with the draws u1, u2 for the initial point
PoissonStart(u1, u2) ==
    /\ pc = "sample" /\ settings.sampler = "poisson"
    /\ LET rp == [w |-> width, h |-> height, n |-> settings.points]
           p0 == <<(u1 * width) \div RngMod, (u2 * height) \div RngMod>>
       IN  /\ rParam' = rp
           /\ grid' = GridStore(EmptyGrid, GridIndex(rp, p0), p0)
           /\ active' = <<p0>>
    /\ randIndex' = 0 /\ jAttempt' = 0
    /\ pc' = "poisson_pick"
    /\ UNCHANGED <<genVars, points, edgeVars, triVars, filterVars, outVars, histVars, appVars>>

\* lines 188-191, with the draw u for randIndex
PoissonPick(u) ==
    /\ pc = "poisson_pick" /\ Len(active) > 0
    /\ randIndex' = (u * Len(active)) \div RngMod
    /\ jAttempt' = 0
    /\ pc' = "poisson_try"
    /\ UNCHANGED <<genVars, points, grid, active, rParam, edgeVars, triVars, filterVars, outVars,
                   histVars, appVars>>

\* one pass of the loop of lines 192-224 with the candidate cand
PoissonAttempt(cand) ==
    /\ pc = "poisson_try" /\ jAttempt < KAttempts
    /\ IF ~OutOfDomain(rParam, cand) /\ NeighborhoodOk(rParam, grid, cand)
       THEN /\ Len(active) < MaxActive
            /\ grid' = GridStore(grid, GridIndex(rParam, cand), cand)
            /\ active' = Append(active, cand)
            /\ pc' = "poisson_pick"
            /\ UNCHANGED jAttempt
       ELSE /\ jAttempt' = jAttempt + 1
            /\ UNCHANGED <<pc, grid, active>>
    /\ UNCHANGED <<genVars, points, randIndex, rParam, edgeVars, triVars, filterVars, outVars, histVars, appVars>>

\* lines 225-227: no candidate was found
PoissonRemove ==
    /\ pc = "poisson_try" /\ jAttempt = KAttempts
    /\ active' = Splice(active, randIndex)
    /\ pc' = "poisson_pick"
    /\ UNCHANGED <<genVars, rngVars, points, grid, randIndex, jAttempt, rParam, edgeVars, triVars,
                   filterVars, outVars, histVars, appVars>>

\* lines 230-234: the loop has ended
PoissonReturn ==
    /\ pc = "poisson_pick" /\ Len(active) = 0
    /\ points' = GridPoints(grid)
    /\ pc' = "sampled"
    /\ UNCHANGED <<genVars, rngVars, poissonVars, edgeVars, triVars, filterVars, outVars, histVars, appVars>>

\* the sampler's steps with the draws taken from the invocation's random source
PoissonStartRng ==
    /\ PoissonStart(Draw(s, 1), Draw(s, 2))
    /\ s' = Draw(s, 2)

PoissonPickRng ==
    /\ PoissonPick(Draw(s, 1))
    /\ s' = Draw(s, 1)

PoissonAttemptRng ==
    /\ pc = "poisson_try"
    /\ PoissonAttempt(Candidate(rParam, active[randIndex + 1], Draw(s, 1), Draw(s, 2)))
    /\ s' = Draw(s, 2)

\* line 44
AddBorderPointsCall ==
    /\ pc = "sampled"
    /\ points' = AddBorderPoints(points, width, height)
    /\ pc' = "triangulate"
    /\ UNCHANGED <<genVars, rngVars, poissonVars, edgeVars, triVars, filterVars, outVars, histVars, appVars>>

\* lines 46-51 with an opaque triangulator: any list of faces
Triangulate ==
    /\ pc = "triangulate"
    /\ \E fs \in FaceLists(width, height) : faces' = fs
    /\ nbrs' = <<>>
    /\ iFace' = 0 /\ triangles' = <<>> /\ triangleIndexMap' = <<>> /\ currentId' = FirstId
    /\ pc' = "filter"
    /\ UNCHANGED <<genVars, rngVars, points, poissonVars, edgeVars, tAdj, outVars, histVars, appVars>>

\* lines 46-51 with a triangulator that is a function of the points
TriangulateFan ==
    /\ pc = "triangulate"
    /\ faces' = FanFaces(points)
    /\ nbrs' = <<>>
    /\ iFace' = 0 /\ triangles' = <<>> /\ triangleIndexMap' = <<>> /\ currentId' = FirstId
    /\ pc' = "filter"
    /\ UNCHANGED <<genVars, rngVars, points, poissonVars, edgeVars, tAdj, outVars, histVars, appVars>>

\* line 46 or 48: the triangulator throws
TriangulateThrows ==
    /\ pc = "triangulate"
    /\ pc' = "catch"
    /\ UNCHANGED <<genVars, rngVars, points, poissonVars, edgeVars, triVars, filterVars, outVars,
                   histVars, appVars>>

\* one pass of the loop of lines 53-79, face i = iFace
FilterStep ==
    /\ pc = "filter" /\ iFace < Len(faces)
    /\ LET vertices == faces[iFace + 1]
           area2 == GetArea2(vertices)
       IN  IF AnyOutside(vertices, width, height) \/ TooSmall(area2)
           THEN UNCHANGED <<triangles, triangleIndexMap, currentId>>
           ELSE /\ triangles' = Append(triangles,
                        [id |-> AssignedId(iFace, currentId), vertices |-> vertices,
                         centroid3 |-> GetCentroid3(vertices), area2 |-> area2,
                         avg_color |-> GetAverageColor(vertices, imageData, width, height,
                                                       settings.colorSpace),
                         neighbors |-> <<>>])
                /\ triangleIndexMap' = MapSet(triangleIndexMap, iFace,
                                              AssignedId(iFace, currentId))
                /\ currentId' = NextId(currentId)
    /\ iFace' = iFace + 1
    /\ UNCHANGED <<pc, genVars, rngVars, points, poissonVars, edgeVars, triVars, tAdj, outVars, histVars, appVars>>

\* the loop of lines 53-79 ends; line 81
FilterExit ==
    /\ pc = "filter" /\ iFace >= Len(faces)
    /\ pc' = IF settings.withNeighbors THEN "neighbors" ELSE "resolve"
    /\ tAdj' = 1
    /\ UNCHANGED <<genVars, rngVars, points, poissonVars, edgeVars, triVars, iFace, triangles,
                   triangleIndexMap, currentId, outVars, histVars, appVars>>

\* the neighbor relation delaunay.neighbors answers from: any one over the faces
NeighborsOpaque ==
    /\ pc = "neighbors"
    /\ \E rel \in NeighborRelations(Len(faces)) : nbrs' = rel
    /\ pc' = "adjacency"
    /\ UNCHANGED <<genVars, rngVars, points, poissonVars, edgeVars, faces, filterVars, outVars, histVars, appVars>>

\* the neighbor relation of the fan
NeighborsFan ==
    /\ pc = "neighbors"
    /\ nbrs' = FanNeighbors(Len(faces))
    /\ pc' = "adjacency"
    /\ UNCHANGED <<genVars, rngVars, points, poissonVars, edgeVars, faces, filterVars, outVars, histVars, appVars>>

\* the neighbors of one triangle (lines 83-92): unchanged when its index is not found
ResolvedNeighbors(m, rel, tri) ==
    LET originalIndex == OriginalIndex(m, tri.id)
    IN  IF originalIndex = NaN \/ originalIndex \notin DOMAIN rel THEN tri.neighbors
        ELSE PushNeighbors(m, rel[originalIndex], tri.neighbors)

\* one pass of the loop of lines 82-93, tri = triangles[tAdj]
AdjacencyStep ==
    /\ pc = "adjacency" /\ tAdj <= Len(triangles)
    /\ triangles' = [triangles EXCEPT ![tAdj].neighbors =
                        ResolvedNeighbors(triangleIndexMap, nbrs, triangles[tAdj])]
    /\ tAdj' = tAdj + 1
    /\ UNCHANGED <<pc, genVars, rngVars, points, poissonVars, edgeVars, triVars, iFace,
                   triangleIndexMap, currentId, outVars, histVars, appVars>>

AdjacencyExit ==
    /\ pc = "adjacency" /\ tAdj > Len(triangles)
    /\ pc' = "resolve"
    /\ UNCHANGED <<genVars, rngVars, points, poissonVars, edgeVars, triVars, filterVars, outVars,
                   histVars, appVars>>

\* the triangles of the value of lines 96-106
\* (a variant that resolves before the last triangle is pushed: ResultOfPartial)
ResultOfPartial(tris, n) == SubSeq(tris, 1, n - 1)
ResultOf(tris, n) == tris

\* lines 96-106
Resolve ==
    /\ pc = "resolve"
    /\ resolveCalls' = resolveCalls + 1
    /\ result' = [version |-> "1.0",
                  image |-> [width |-> width, height |-> height],
                  params |-> [sampler |-> settings.sampler, points |-> settings.points,
                              seed |-> settings.seed, color_space |-> settings.colorSpace],
                  triangles |-> ResultOf(triangles, Len(triangles))]
    /\ pc' = "done"
    /\ UNCHANGED <<genVars, rngVars, points, poissonVars, edgeVars, triVars, filterVars, rejectCalls,
                   histVars, appVars>>

\* lines 108-110
Reject ==
    /\ pc = "catch"
    /\ rejectCalls' = rejectCalls + 1
    /\ pc' = "done"
    /\ UNCHANGED <<genVars, rngVars, points, poissonVars, edgeVars, triVars, filterVars, resolveCalls,
                   result, histVars, appVars>>

\* an observer keeps one resolved invocation's input and triangle list
Remember ==
    /\ pc = "done" /\ resolveCalls = 1 /\ history = NoHistory
    /\ history' = <<InputOf(image, settings), result.triangles, FALSE>>
    /\ UNCHANGED <<pc, genVars, rngVars, points, poissonVars, edgeVars, triVars, filterVars, outVars,
                   appVars>>

----------------------------------------------------------------------------
(* App: the component's state and its callbacks.                           *)

\* the sample image and the files a user selects, by name
SampleName == "sample.jpg"
FileNames == {"a.png", "b.png"}

\* the image a name's bytes decode to
ImageOf(name) ==
    CASE name = SampleName -> MkImage(4, 2, "split")
      [] name = "a.png" -> MkImage(2, 4, "ramp")
      [] OTHER -> MkImage(8, 1, "black")

\* null, as an image, as a result and as an error; no promise awaited
NoSourceImage == [width |-> 0, height |-> 0, data |-> <<>>]
NoData == [image |-> [width |-> 0, height |-> 0, source |-> ""]]
NoError == "null"
NoAwait == <<>>

\* App's settings.maxSize, scaled to the images above
AppMaxSize == 2

\* the state after the first render and its effect: the useState defaults, then
\* setSourceFileName("sample.jpg") with the sample's load begun
AppMounted ==
    /\ sourceImage = NoSourceImage /\ sourceFileName = SampleName
    /\ lowPolyData = NoData /\ isLoading = FALSE /\ error = NoError
    /\ preload = "pending"
    /\ loads = [f \in FileNames |-> "none"]
    /\ awaited = NoAwait

\* the continuation of an await runs before any other callback does
NoMicrotask == awaited = NoAwait

\* the sample's img.onload
PreloadLoaded ==
    /\ NoMicrotask /\ preload = "pending"
    /\ sourceImage' = ImageOf(SampleName)
    /\ preload' = "loaded"
    /\ UNCHANGED <<sourceFileName, lowPolyData, isLoading, error, loads, awaited>>
    /\ UNCHANGED <<pc, genVars, rngVars, points, poissonVars, edgeVars, triVars, filterVars, outVars,
                   histVars>>

\* handleFileChange with the file f (a file whose load is not in flight)
HandleFileChange(f) ==
    /\ NoMicrotask /\ loads[f] = "none"
    /\ sourceFileName' = f
    /\ loads' = [loads EXCEPT ![f] = "reading"]
    /\ UNCHANGED <<sourceImage, lowPolyData, isLoading, error, preload, awaited>>
    /\ UNCHANGED <<pc, genVars, rngVars, points, poissonVars, edgeVars, triVars, filterVars, outVars,
                   histVars>>

\* reader.onload: the image's decoding begins
ReaderLoaded(f) ==
    /\ NoMicrotask /\ loads[f] = "reading"
    /\ loads' = [loads EXCEPT ![f] = "decoding"]
    /\ UNCHANGED <<sourceImage, sourceFileName, lowPolyData, isLoading, error, preload, awaited>>
    /\ UNCHANGED <<pc, genVars, rngVars, points, poissonVars, edgeVars, triVars, filterVars, outVars,
                   histVars>>

\* the read fails: the reader has no error handler
ReaderFailed(f) ==
    /\ NoMicrotask /\ loads[f] = "reading"
    /\ loads' = [loads EXCEPT ![f] = "none"]
    /\ UNCHANGED <<sourceImage, sourceFileName, lowPolyData, isLoading, error, preload, awaited>>
    /\ UNCHANGED <<pc, genVars, rngVars, points, poissonVars, edgeVars, triVars, filterVars, outVars,
                   histVars>>

\* img.onload of the file f
ImgLoaded(f) ==
    /\ NoMicrotask /\ loads[f] = "decoding"
    /\ sourceImage' = ImageOf(f)
    /\ lowPolyData' = NoData
    /\ error' = NoError
    /\ loads' = [loads EXCEPT ![f] = "none"]
    /\ UNCHANGED <<sourceFileName, isLoading, preload, awaited>>
    /\ UNCHANGED <<pc, genVars, rngVars, points, poissonVars, edgeVars, triVars, filterVars, outVars,
                   histVars>>

\* img.onerror of the file f
ImgError(f) ==
    /\ NoMicrotask /\ loads[f] = "decoding"
    /\ error' = "load"
    /\ loads' = [loads EXCEPT ![f] = "none"]
    /\ UNCHANGED <<sourceImage, sourceFileName, lowPolyData, isLoading, preload, awaited>>
    /\ UNCHANGED <<pc, genVars, rngVars, points, poissonVars, edgeVars, triVars, filterVars, outVars,
                   histVars>>

\* what generateLowPolyData(img, name, settings) settles with: its executor runs
\* to the end inside the call; it rejects when a scaled dimension is 0 and when
\* something else throws, and else resolves with the scaled size and the name
SettledWith(img, name, maxSize) ==
    LET dims == ScaledDims(img.width, img.height, maxSize)
        data == [image |-> [width |-> dims[1], height |-> dims[2], source |-> name]]
    IN  IF dims[1] = 0 \/ dims[2] = 0
        THEN {[ok |-> FALSE, data |-> NoData]}
        ELSE {[ok |-> FALSE, data |-> NoData], [ok |-> TRUE, data |-> data]}

\* handleGenerate up to its await
HandleGenerate ==
    /\ NoMicrotask
    /\ IF sourceImage = NoSourceImage
       THEN /\ error' = "no_image"
            /\ UNCHANGED <<lowPolyData, isLoading, awaited>>
       ELSE /\ isLoading' = TRUE
            /\ error' = NoError
            /\ lowPolyData' = NoData
            /\ \E r \in SettledWith(sourceImage, sourceFileName, AppMaxSize) : awaited' = <<r>>
    /\ UNCHANGED <<sourceImage, sourceFileName, preload, loads>>
    /\ UNCHANGED <<pc, genVars, rngVars, points, poissonVars, edgeVars, triVars, filterVars, outVars,
                   histVars>>

\* handleGenerate after its await: try, catch and finally
GenerateSettled ==
    /\ awaited # NoAwait
    /\ IF awaited[1].ok
       THEN lowPolyData' = awaited[1].data /\ UNCHANGED error
       ELSE error' = "generation" /\ UNCHANGED lowPolyData
    /\ isLoading' = FALSE
    /\ awaited' = NoAwait
    /\ UNCHANGED <<sourceImage, sourceFileName, preload, loads>>
    /\ UNCHANGED <<pc, genVars, rngVars, points, poissonVars, edgeVars, triVars, filterVars, outVars,
                   histVars>>

----------------------------------------------------------------------------
(* Specifications.                                                         *)

InitLocals ==
    /\ width = 0 /\ height = 0 /\ imageData = <<>> /\ imageAccessed = FALSE
    /\ points = <<>>
    /\ grid = EmptyGrid /\ active = <<>> /\ randIndex = 0 /\ jAttempt = 0
    /\ rParam = NoRParam
    /\ edgeMap = <<>> /\ normalized = FALSE /\ attempts = 0
    /\ faces = <<>> /\ nbrs = <<>>
    /\ iFace = 0 /\ triangles = <<>> /\ triangleIndexMap = <<>>
    /\ currentId = FirstId /\ tAdj = 1
    /\ resolveCalls = 0 /\ rejectCalls = 0 /\ result = NoResult
    /\ history = NoHistory
    /\ AppMounted

\* the application before any generation
Init ==
    /\ pc = "idle"
    /\ image = EmptyImage /\ settings = NoSettings
    /\ s = 0
    /\ InitLocals

\* the inputs of Spec: two images, one of them scaled down, each sampler
SpecImages == {MkImage(4, 4, "split"), MkImage(6, 3, "ramp")}
SpecSettings ==
    {MkSettings(4, 2, sm, 1, 1, nb) : sm \in {"grid", "poisson", "edge-aware"}, nb \in BOOLEAN}

Next ==
    \/ \E img \in SpecImages, st \in SpecSettings : Invoke(img, st)
    \/ GetScaledImageDataThrows
    \/ GetScaledImageData
    \/ CreatePRNG
    \/ SampleGridCall
    \/ SampleEdgeAwareCall
    \/ PoissonStartRng
    \/ PoissonPickRng
    \/ PoissonAttemptRng
    \/ PoissonRemove
    \/ PoissonReturn
    \/ AddBorderPointsCall
    \/ Triangulate
    \/ TriangulateThrows
    \/ FilterStep
    \/ FilterExit
    \/ NeighborsOpaque
    \/ AdjacencyStep
    \/ AdjacencyExit
    \/ Resolve
    \/ Reject

\* one generation at a time, the triangulator opaque
Spec == Init /\ [][Next]_vars

\* getScaledImageData alone, for every image size and maxSize within the bounds
MaxDim == 8
MaxSizeIn == 6

InitScale ==
    /\ pc = "scale"
    /\ \E w \in 1..MaxDim, h \in 1..MaxDim : image = MkImage(w, h, "black")
    /\ \E m \in 1..MaxSizeIn : settings = MkSettings(m, 2, "grid", 1, 1, FALSE)
    /\ s = 0
    /\ InitLocals

NextScale ==
    \/ GetScaledImageData
    \/ GetScaledImageDataThrows

SpecScale == InitScale /\ [][NextScale]_vars

\* samplePoisson alone, for every sequence of draws: the initial point is any
\* lattice point, the picked index any index, the candidate any lattice point
\* of the annulus
PoissonDims == {<<4, 3>>, <<3, 3>>}
MaxTarget == 2

InitPoisson ==
    /\ pc = "sample"
    /\ image = EmptyImage
    /\ \E n \in 1..MaxTarget : settings = MkSettings(4, n, "poisson", 1, 1, FALSE)
    /\ s = 0
    /\ \E d \in PoissonDims : width = d[1] /\ height = d[2]
    /\ imageData = <<>> /\ imageAccessed = TRUE
    /\ points = <<>>
    /\ grid = EmptyGrid /\ active = <<>> /\ randIndex = 0 /\ jAttempt = 0
    /\ rParam = NoRParam
    /\ edgeMap = <<>> /\ normalized = FALSE /\ attempts = 0
    /\ faces = <<>> /\ nbrs = <<>>
    /\ iFace = 0 /\ triangles = <<>> /\ triangleIndexMap = <<>>
    /\ currentId = FirstId /\ tAdj = 1
    /\ resolveCalls = 0 /\ rejectCalls = 0 /\ result = NoResult
    /\ history = NoHistory
    /\ AppMounted

PoissonStartAny == \E u1 \in 0..(RngMod - 1), u2 \in 0..(RngMod - 1) :
    PoissonStart(u1, u2) /\ UNCHANGED s

PoissonPickAny == \E u \in 0..(RngMod - 1) : PoissonPick(u) /\ UNCHANGED s

PoissonAttemptAny ==
    /\ pc = "poisson_try"
    /\ \E cand \in CandidateSet(rParam, active[randIndex + 1]) :
          PoissonAttempt(cand) /\ UNCHANGED s

NextPoisson ==
    \/ PoissonStartAny
    \/ PoissonPickAny
    \/ PoissonAttemptAny
    \/ PoissonRemove
    \/ PoissonReturn

SpecPoisson == InitPoisson /\ [][NextPoisson]_vars

\* a failed pass of the attempt loop: whatever the candidate, it leaves the state
\* a pass with a candidate outside the image leaves
PoissonReject == PoissonAttempt(FarPoint) /\ UNCHANGED s

\* the square images of SpecPoisson, the loops never pausing: a synchronous
\* computation takes its next step whenever it has one (a pass of the attempt loop
\* that accepts its candidate leaves the loop, so a round that goes on has failed passes)
InitPoissonSquare == InitPoisson /\ width = height
SpecPoissonFair ==
    /\ InitPoissonSquare /\ [][NextPoisson]_vars
    /\ WF_vars(PoissonStartAny) /\ WF_vars(PoissonPickAny) /\ WF_vars(PoissonReject)
    /\ WF_vars(PoissonRemove) /\ WF_vars(PoissonReturn)

\* the App alone: any selections, loads and generate clicks in any order, a
\* queued continuation always running
NextApp ==
    \/ PreloadLoaded
    \/ \E f \in FileNames : HandleFileChange(f)
    \/ \E f \in FileNames : ReaderLoaded(f)
    \/ \E f \in FileNames : ReaderFailed(f)
    \/ \E f \in FileNames : ImgLoaded(f)
    \/ \E f \in FileNames : ImgError(f)
    \/ HandleGenerate
    \/ GenerateSettled

SpecApp == Init /\ [][NextApp]_vars /\ WF_vars(GenerateSettled)

\* generation after generation with a triangulator that is a function of the
\* points, an observer keeping one earlier result: the inputs are two images,
\* each sampler, target counts below, at and above zero, two seeds
DetImages == {MkImage(4, 4, "split"), MkImage(6, 3, "ramp")}
DetSettings ==
    {MkSettings(4, n, sm, seed, 1, TRUE) :
        n \in {0 - 1, 0, 2}, sm \in {"grid", "poisson", "edge-aware"}, seed \in {1, 2}}

NextDet ==
    \/ \E img \in DetImages, st \in DetSettings : Invoke(img, st)
    \/ GetScaledImageData
    \/ CreatePRNG
    \/ SampleGridCall
    \/ SampleEdgeAwareCall
    \/ PoissonStartRng
    \/ PoissonPickRng
    \/ PoissonAttemptRng
    \/ PoissonRemove
    \/ PoissonReturn
    \/ AddBorderPointsCall
    \/ TriangulateFan
    \/ FilterStep
    \/ FilterExit
    \/ NeighborsFan
    \/ AdjacencyStep
    \/ AdjacencyExit
    \/ Resolve
    \/ Remember

SpecDet == Init /\ [][NextDet]_vars

\* the samplers that draw from the image alone and the border augmentation,
\* for every image size, target count and edge weight within the bounds
MaxSampleDim == 5
MaxSampleTarget == 4
MaxGridTarget == 13
SampleSeeds == {1, 2}

InitSample ==
    /\ pc = "scale"
    /\ \E w \in 1..MaxSampleDim, h \in 1..MaxSampleDim, kind \in {"black", "split", "dim"} :
          image = MkImage(w, h, kind)
    /\ \/ \E n \in 1..MaxSampleTarget, seed \in SampleSeeds, ew \in 0..EwDen :
             settings = MkSettings(MaxSampleDim, n, "edge-aware", seed, ew, FALSE)
       \/ \E n \in 1..MaxGridTarget, seed \in SampleSeeds :
             settings = MkSettings(MaxSampleDim, n, "grid", seed, 1, FALSE)
    /\ s = 0
    /\ InitLocals

NextSample ==
    \/ GetScaledImageData
    \/ CreatePRNG
    \/ SampleGridCall
    \/ EdgeAwareStart
    \/ EdgeAwareDraw
    \/ EdgeAwareReturn
    \/ AddBorderPointsCall

SpecSample == InitSample /\ [][NextSample]_vars

\* the generation with the colors looked at: a solid image and two of two
\* colors, both color spaces, and a triangulator handing over faces that
\* cover half the canvas, straddle the two colors, or hold no pixel of
\* their bounding box (the last one)
ColorImages == {MkImage(4, 4, "red"), MkImage(4, 4, "redblue"), MkImage(4, 4, "split")}
ColorSettings ==
    {InColorSpace(MkSettings(4, n, sm, seed, 1, FALSE), cs) :
        n \in {2, 4}, sm \in {"grid", "poisson", "edge-aware"}, seed \in {1, 2},
        cs \in {"rgb", "lab"}}

ColorFaceKinds(w, h) ==
    { << <<0, 0>>, <<w, 0>>, <<0, h>> >>,
      << <<w, 0>>, <<w, h>>, <<0, h>> >>,
      << <<1, 0>>, <<3, 0>>, <<2, 2>> >>,
      << <<0, 0>>, <<0, 1>>, <<2, 0>> >>,
      << <<w - 1, 2>>, <<w, 0>>, <<w, 2>> >> }

ColorFaceLists(w, h) == UNION {[1..n -> ColorFaceKinds(w, h)] : n \in 0..MaxFaces}

\* lines 46-51 with an opaque triangulator: any list of those faces
TriangulateColor ==
    /\ pc = "triangulate"
    /\ \E fs \in ColorFaceLists(width, height) : faces' = fs
    /\ nbrs' = <<>>
    /\ iFace' = 0 /\ triangles' = <<>> /\ triangleIndexMap' = <<>> /\ currentId' = FirstId
    /\ pc' = "filter"
    /\ UNCHANGED <<genVars, rngVars, points, poissonVars, edgeVars, tAdj, outVars, histVars, appVars>>

NextColor ==
    \/ \E img \in ColorImages, st \in ColorSettings : Invoke(img, st)
    \/ GetScaledImageData
    \/ CreatePRNG
    \/ SampleGridCall
    \/ SampleEdgeAwareCall
    \/ PoissonStartRng
    \/ PoissonPickRng
    \/ PoissonAttemptRng
    \/ PoissonRemove
    \/ PoissonReturn
    \/ AddBorderPointsCall
    \/ TriangulateColor
    \/ FilterStep
    \/ FilterExit
    \/ Resolve

SpecColor == Init /\ [][NextColor]_vars

----------------------------------------------------------------------------
(* Claims.                                                                 *)


\* a generation has resolved
Resolved == pc = "done" /\ resolveCalls = 1

\* what the claims say of a face, in their own words: it lies within the
\* canvas, and its absolute shoelace area (doubled)
FaceInCanvas(f) ==
    \A k \in 1..3 : 0 <= f[k][1] /\ f[k][1] <= width /\ 0 <= f[k][2] /\ f[k][2] <= height
Shoelace2(f) ==
    LET d == (f[2][1] - f[1][1]) * (f[3][2] - f[1][2]) - (f[3][1] - f[1][1]) * (f[2][2] - f[1][2])
    IN  IF d < 0 THEN 0 - d ELSE d
\* face index j (0-based) has an id in the map
HasId(j) == \E k \in 1..Len(triangleIndexMap) : triangleIndexMap[k][1] = j

\* C1: the triangle at list position k (0-based) of a result has id k + 1, so
\* the ids are exactly 1..N, whatever faces the filter discarded
C1_DenseIds ==
    Resolved => \A k \in 1..Len(result.triangles) : result.triangles[k].id = k

\* C1's case: a resolved result of two triangles, a face before them discarded
C1_Witness ==
    /\ Resolved /\ Len(result.triangles) = 2
    /\ ~HasId(0) /\ HasId(1) /\ HasId(2)

\* C2: every vertex of every triangle of a result lies in [0, width] x
\* [0, height], and a face with a vertex outside never gets an id
C2_InCanvas ==
    /\ Resolved => \A k \in 1..Len(result.triangles) : FaceInCanvas(result.triangles[k].vertices)
    /\ \A j \in 0..(Len(faces) - 1) : HasId(j) => FaceInCanvas(faces[j + 1])

\* C2's case: a result with a triangle whose vertices are on the canvas border,
\* a face with a vertex right of the canvas and one with a vertex above it discarded
C2_Witness ==
    /\ Resolved
    /\ \E k \in 1..Len(result.triangles) :
          \E v \in 1..3 : result.triangles[k].vertices[v] = <<width, 0>>
    /\ \E j \in 1..Len(faces) : \E v \in 1..3 : faces[j][v][1] > width
    /\ \E j \in 1..Len(faces) : \E v \in 1..3 : faces[j][v][2] < 0

\* C3: every triangle of a result has area_px >= 1.0, area_px being the
\* absolute shoelace area of its vertices, and a face of area < 1.0 never gets an id
C3_AreaFloor ==
    /\ Resolved => \A k \in 1..Len(result.triangles) :
          /\ result.triangles[k].area2 = Shoelace2(result.triangles[k].vertices)
          /\ result.triangles[k].area2 >= 2
    /\ \A j \in 0..(Len(faces) - 1) : HasId(j) => Shoelace2(faces[j + 1]) >= 2

\* C3's case: a result holding a triangle of area exactly 1.0, a face of area 1/2 discarded
C3_Witness ==
    /\ Resolved
    /\ \E k \in 1..Len(result.triangles) : result.triangles[k].area2 = 2
    /\ \E j \in 0..(Len(faces) - 1) : Shoelace2(faces[j + 1]) = 1 /\ ~HasId(j)

\* C4: with neighbors requested, every id in every neighbors list of a result
\* is the id of a triangle of that result, a member of 1..N
C4_NeighborClosure ==
    (Resolved /\ settings.withNeighbors) =>
        \A k \in 1..Len(result.triangles) :
            \A n \in 1..Len(result.triangles[k].neighbors) :
                /\ result.triangles[k].neighbors[n] \in 1..Len(result.triangles)
                /\ \E m \in 1..Len(result.triangles) :
                      result.triangles[m].id = result.triangles[k].neighbors[n]

\* C4's case: a result with a non-empty neighbors list whose triangulator
\* face also has a discarded neighbor
C4_Witness ==
    /\ Resolved /\ settings.withNeighbors
    /\ \E j \in 0..(Len(faces) - 1) :
          /\ HasId(j)
          /\ \E n \in 1..Len(nbrs[j]) : ~HasId(nbrs[j][n])
          /\ \E n \in 1..Len(nbrs[j]) : HasId(nbrs[j][n])
    /\ \E k \in 1..Len(result.triangles) : result.triangles[k].neighbors # <<>>

\* the claims' account of the filter: face j (0-based) survives, the id it
\* then has, and the face of the triangle at list position k (1-based)
Survives(j) == FaceInCanvas(faces[j + 1]) /\ Shoelace2(faces[j + 1]) >= 2
IdOfFace(j) == Cardinality({i \in 0..j : Survives(i)})
FaceOfPosition(k) == CHOOSE j \in 0..(Len(faces) - 1) : Survives(j) /\ IdOfFace(j) = k
RECURSIVE ExpectedNeighbors(_)
ExpectedNeighbors(indexes) ==
    IF indexes = <<>> THEN <<>>
    ELSE (IF Survives(Head(indexes)) THEN <<IdOfFace(Head(indexes))>> ELSE <<>>)
         \o ExpectedNeighbors(Tail(indexes))

\* C5: with neighbors requested, the neighbors list of each triangle of a
\* result is the ids of the faces the triangulator reports for its face, in
\* that order, the discarded faces left out; without, every list is empty
C5_NeighborsExact ==
    Resolved =>
        \A k \in 1..Len(result.triangles) :
            result.triangles[k].neighbors =
                IF settings.withNeighbors
                THEN ExpectedNeighbors(nbrs[FaceOfPosition(k)])
                ELSE <<>>

\* C5's case: a result whose second triangle comes from the third face and
\* keeps one of two reported neighbors
C5_Witness ==
    /\ Resolved /\ settings.withNeighbors
    /\ Len(result.triangles) = 2 /\ ~HasId(1) /\ HasId(2)
    /\ Len(nbrs[2]) = 2 /\ Len(result.triangles[2].neighbors) = 1

\* C6 (as claimed): a generation with a target point count of zero or less
\* accesses no image and never resolves
C6_NonPositiveRejected ==
    settings.points <= 0 => (~imageAccessed /\ resolveCalls = 0)

\* the surviving faces in order: what a complete triangle list is made from
RECURSIVE SurvivorsFrom(_)
SurvivorsFrom(j) ==
    IF j >= Len(faces) THEN <<>>
    ELSE (IF Survives(j) THEN <<faces[j + 1]>> ELSE <<>>) \o SurvivorsFrom(j + 1)

C7_WitnessRejected == pc = "done" /\ rejectCalls = 1 /\ imageAccessed

\* C8: a resolved generation whose input equals that of a remembered earlier
\* one has the same triangle list, whatever was generated in between
C8_Deterministic ==
    (Resolved /\ history # NoHistory /\ history[1] = InputOf(image, settings)) =>
        result.triangles = history[2]

\* C8's case: the same input resolved again, with triangles, after another
\* input was generated in between, by the Poisson-disc sampler
C8_Witness ==
    /\ Resolved /\ history # NoHistory /\ history[1] = InputOf(image, settings)
    /\ history[3] /\ Len(result.triangles) > 0
    /\ settings.sampler = "poisson"

\* C9: a source no larger than maxSize keeps its dimensions; otherwise the
\* larger output dimension is maxSize, the other the scaled original rounded
\* to the nearest integer, and neither exceeds maxSize
C9_Normalized ==
    (pc \in {"prng", "catch"} /\ imageAccessed) =>
        LET w == image.width
            h == image.height
            m == settings.maxSize
            \* x is n / d rounded to the nearest integer
            Nearest(x, n, d) == 2 * Abs(x * d - n) <= d
        IN  IF w <= m /\ h <= m
            THEN width = w /\ height = h
            ELSE /\ width <= m /\ height <= m
                 /\ Max(width, height) = m
                 /\ w >= h => width = m /\ Nearest(height, h * m, w)
                 /\ h >= w => height = m /\ Nearest(width, w * m, h)

\* C9's case: a portrait source scaled down, its width rounded
C9_Witness ==
    /\ pc = "prng" /\ imageAccessed
    /\ image.height > settings.maxSize /\ image.width < image.height
    /\ width < image.width /\ (image.width * settings.maxSize) % image.height # 0

\* C10 (as claimed): any two distinct points samplePoisson returns are at
\* distance >= r
C10_MinSeparation ==
    (pc = "sampled" /\ settings.sampler = "poisson") =>
        \A a \in 1..Len(points) : \A b \in 1..Len(points) :
            a # b => ~CloserThanR(rParam, Dist2(points[a], points[b]))

\* C11: sampleEdgeAware never holds more than targetCount points nor makes
\* more than 10 x targetCount draws; when it returns one of the two bounds is
\* met with equality, and with edgeWeight = 0 it returns exactly targetCount points
C11_EdgeAwareStops ==
    (settings.sampler = "edge-aware" /\ pc \in {"edge_loop", "sampled"}) =>
        /\ Len(points) <= settings.points
        /\ attempts <= 10 * settings.points
        /\ pc = "sampled" =>
              /\ Len(points) = settings.points \/ attempts = 10 * settings.points
              /\ settings.edgeWeight = 0 => Len(points) = settings.points

\* C11's cases: a return on the draw bound with fewer points than asked for
\* (and some accepted), and a return on the point bound before the draw bound
C11_Witness ==
    /\ settings.sampler = "edge-aware" /\ pc = "sampled"
    /\ attempts = 10 * settings.points
    /\ Len(points) > 0 /\ Len(points) < settings.points
C11_WitnessFull ==
    /\ settings.sampler = "edge-aware" /\ pc = "sampled"
    /\ settings.edgeWeight > 0
    /\ Len(points) = settings.points /\ attempts < 10 * settings.points
    /\ attempts > settings.points

\* the edge map has been built by the edge-aware branch
EdgeMapBuilt == settings.sampler = "edge-aware" /\ pc \in {"edge_loop", "sampled"}

\* C12 (as claimed): when the greatest gradient magnitude over the interior
\* pixels is above 0, the edge map's greatest value is 255, and every pixel
\* with the greatest gradient has 255, also when magnitudes exceed 255
C12_MaxIs255 ==
    (EdgeMapBuilt /\ MaxGradient2(imageData, width, height) > 0) =>
        /\ \A k \in 1..Len(edgeMap) : edgeMap[k] <= 255
        /\ \A k \in 1..Len(edgeMap) :
              Gradients2(imageData, width, height)[k] = MaxGradient2(imageData, width, height)
                  => edgeMap[k] = 255

\* the same for magnitudes up to 255 only
C12_MaxIs255WhenSmall ==
    (EdgeMapBuilt /\ MaxGradient2(imageData, width, height) > 0
        /\ MaxGradient2(imageData, width, height) <= 255 * 255) =>
        \A k \in 1..Len(edgeMap) :
              Gradients2(imageData, width, height)[k] = MaxGradient2(imageData, width, height)
                  => edgeMap[k] = 255

\* every pixel of the scaled image has the same color: the gradient is zero everywhere
UniformImage == \A k \in 1..Len(imageData) : imageData[k] = imageData[1]

\* C13: on an image with zero gradient everywhere the edge map is all-zero
\* and is not divided by the maximum gradient, and every draw of the
\* edge-aware loop is accepted exactly when random() < 1 - edgeWeight
C13_ZeroGradient ==
    /\ [](EdgeMapBuilt /\ UniformImage =>
              /\ ~normalized
              /\ Len(edgeMap) = width * height
              /\ \A k \in 1..Len(edgeMap) : edgeMap[k] = 0)
    /\ [][(pc = "edge_loop" /\ attempts' = attempts + 1 /\ UniformImage) =>
              ((Len(points') = Len(points) + 1)
                  <=> (s' * EwDen < RngMod * (EwDen - settings.edgeWeight)))]_vars

\* C13's case: an all-black image of 3 x 3 or more, an edge weight strictly
\* between 0 and 1, the loop over with some draws accepted and some refused
C13_Witness ==
    /\ EdgeMapBuilt /\ UniformImage /\ pc = "sampled"
    /\ width >= 3 /\ height >= 3
    /\ settings.edgeWeight > 0 /\ settings.edgeWeight < EwDen
    /\ Len(points) > 0 /\ Len(points) < attempts

\* Math.ceil(Math.sqrt(n) / 2) as the claims mean it: the least k with 4 * k * k >= n
HalfRootCeil(n) == CHOOSE k \in 0..n : 4 * k * k >= n /\ \A j \in 0..(k - 1) : 4 * j * j < n

\* what border augmentation appends to n points on a w x h canvas when each
\* edge gets k - 1 interior points: the corners, then the i-th point of each edge
BorderAppended(w, h, k) ==
    << <<0, 0>>, <<w, 0>>, <<0, h>>, <<w, h>> >>
    \o [q \in 1..(4 * (k - 1)) |->
          LET i == ((q - 1) \div 4) + 1
          IN  CASE (q - 1) % 4 = 0 -> <<(i * w) \div k, 0>>
                [] (q - 1) % 4 = 1 -> <<(i * w) \div k, h>>
                [] (q - 1) % 4 = 2 -> <<0, (i * h) \div k>>
                [] OTHER -> <<w, (i * h) \div k>>]

\* C14 (as claimed): border augmentation leaves the n sampled points in place
\* and appends the four corners and, per edge, ceil(sqrt(n) / 2) - 1 evenly
\* spaced interior points, n the count before augmentation
C14_BorderCountBefore ==
    [][(pc = "sampled" /\ pc' = "triangulate") =>
          LET n == Len(points)
              k == HalfRootCeil(n)
          IN  /\ Len(points') = n + 4 + 4 * (k - 1)
              /\ SubSeq(points', 1, n) = points]_vars

\* C14 (amended): the same with ceil(sqrt(n + 4) / 2) - 1 interior points per
\* edge, the four corners counted in
C14_BorderCount ==
    [][(pc = "sampled" /\ pc' = "triangulate") =>
          LET n == Len(points)
              k == HalfRootCeil(n + 4)
          IN  /\ Len(points') = n + 4 + 4 * (k - 1)
              /\ SubSeq(points', 1, n) = points
              /\ SubSeq(points', n + 1, Len(points')) = BorderAppended(width, height, k)]_vars

\* C14's case: a grid of 13 points or more augmented, two interior points per edge
C14_Witness ==
    /\ pc = "triangulate" /\ settings.sampler = "grid"
    /\ Len(points) >= 13 + 4 + 8
    /\ points[Len(points) - 4] = <<width, height \div 3>>
    /\ points[Len(points)] = <<width, (2 * height) \div 3>>

\* a triangle's face holds no pixel of its bounding box: its color came from
\* the fallback of lines 358-361
NoPixelFace(f) == f = << <<width - 1, 2>>, <<width, 0>>, <<width, 2>> >>

\* C15 (as claimed): every avg_color channel of every triangle of a result is
\* an integer in 0..255, in both color spaces and on the fallback path
C15_ChannelRange ==
    Resolved =>
        \A k \in 1..Len(result.triangles) : \A c \in 1..3 :
            result.triangles[k].avg_color[c] \in 0..255

\* the same for the RGB color space and for the fallback path alone
C15_ChannelRangeRgb ==
    Resolved =>
        \A k \in 1..Len(result.triangles) :
            (settings.colorSpace = "rgb" \/ NoPixelFace(result.triangles[k].vertices)) =>
                \A c \in 1..3 : result.triangles[k].avg_color[c] \in 0..255

\* C16: for an image whose pixels all have one color, every triangle of a
\* result in the RGB color space has that color, whatever the sampler, and
\* whether it is a mean over contained pixels or the fallback pixel
C16_SolidColor ==
    (Resolved /\ settings.colorSpace = "rgb"
        /\ \A k \in 1..Len(image.data) : image.data[k] = image.data[1]) =>
        \A k \in 1..Len(result.triangles) : result.triangles[k].avg_color = image.data[1]

\* C16's case: a solid red image, a result with a triangle colored from the
\* fallback pixel and one colored from a mean over several pixels
C16_Witness ==
    /\ Resolved /\ settings.colorSpace = "rgb"
    /\ \A k \in 1..Len(image.data) : image.data[k] = Red
    /\ \E k \in 1..Len(result.triangles) : NoPixelFace(result.triangles[k].vertices)
    /\ \E k \in 1..Len(result.triangles) :
          result.triangles[k].vertices = << <<0, 0>>, <<width, 0>>, <<0, height>> >>

\* sampleGrid has returned
GridSampled == settings.sampler = "grid" /\ pc = "sampled"

\* Math.ceil(a / b) and the roots of a / b as the claims mean them, for a >= 0, b > 0:
\* the least k with k * b >= a, the least k with k * k * b >= a, and the
\* nearest k to the square root (a half rounds up: (2k - 1)^2 * b <= 4 * a < (2k + 1)^2 * b)
CeilOf(a, b) == CHOOSE k \in 0..a : k * b >= a /\ \A j \in 0..(k - 1) : j * b < a
CeilRootOf(a, b) == CHOOSE k \in 0..a : k * k * b >= a /\ \A j \in 0..(k - 1) : j * j * b < a
RoundRootOf(a, b) ==
    CHOOSE k \in 0..a :
        /\ (k = 0 \/ (2 * k - 1) * (2 * k - 1) * b <= 4 * a)
        /\ 4 * a < (2 * k + 1) * (2 * k + 1) * b

\* the points are one per cell of a rows x cols partition, row by row, each
\* within the image bounds (a point's coordinates are the integer parts)
OnePerCell(rows, cols) ==
    /\ Len(points) = rows * cols
    /\ \A c \in 0..(Len(points) - 1) :
          LET i == c \div cols
              j == c % cols
              p == points[c + 1]
          IN  /\ 0 <= p[1] /\ p[1] <= width /\ 0 <= p[2] /\ p[2] <= height
              /\ (p[1] + 1) * cols > j * width /\ p[1] * cols <= (j + 1) * width
              /\ (p[2] + 1) * rows > i * height /\ p[2] * rows <= (i + 1) * height

\* C17 (as claimed): sampleGrid returns rows x cols points, one per cell, with
\* cols = round(sqrt(targetCount x width / height)) and rows = ceil(targetCount / cols)
C17_GridRound ==
    GridSampled =>
        LET cols == RoundRootOf(settings.points * width, height)
        IN  cols > 0 /\ OnePerCell(CeilOf(settings.points, cols), cols)

\* C17 (amended): the same with cols = ceil(sqrt(targetCount x width / height));
\* the count is then >= targetCount
C17_GridCeil ==
    GridSampled =>
        LET cols == CeilRootOf(settings.points * width, height)
            rows == CeilOf(settings.points, cols)
        IN  /\ OnePerCell(rows, cols)
            /\ Len(points) >= settings.points

\* C17's case: a grid of more points than asked for, in more than one row
\* and column, where rounding the root would have given fewer columns
C17_Witness ==
    /\ GridSampled
    /\ Len(points) > settings.points
    /\ CeilRootOf(settings.points * width, height) > RoundRootOf(settings.points * width, height)
    /\ RoundRootOf(settings.points * width, height) > 1
    /\ Len(points) > CeilRootOf(settings.points * width, height)

\* C18 (as claimed): every triangle of a result has an area strictly above
\* 1.0, a face of area exactly 1.0 being discarded
C18_StrictlyGreater ==
    /\ Resolved => \A k \in 1..Len(result.triangles) : result.triangles[k].area2 > 2
    /\ \A j \in 0..(Len(faces) - 1) : HasId(j) => Shoelace2(faces[j + 1]) > 2

\* C18 (amended): every triangle of a result has an area of 1.0 or more, and
\* a face within the canvas whose area is exactly 1.0 is retained once the
\* filter has passed it
C18_AtLeast ==
    /\ Resolved => \A k \in 1..Len(result.triangles) : result.triangles[k].area2 >= 2
    /\ \A j \in 0..(Len(faces) - 1) :
          (j < iFace /\ FaceInCanvas(faces[j + 1]) /\ Shoelace2(faces[j + 1]) = 2) => HasId(j)

\* C18's case: a result whose first triangle has area exactly 1.0 and whose
\* second has a larger one
C18_Witness ==
    /\ Resolved /\ Len(result.triangles) >= 2
    /\ result.triangles[1].area2 = 2 /\ Shoelace2(result.triangles[1].vertices) = 2
    /\ result.triangles[2].area2 > 2

\* C19 (as claimed): whatever the draws, samplePoisson returns, and a point
\* leaves the active list only after KAttempts candidates from it failed in one round
C19_PoissonTerminates ==
    /\ <>(pc = "sampled")
    /\ [][Len(active') < Len(active) =>
              (pc = "poisson_try" /\ jAttempt = KAttempts /\ Len(active') = Len(active) - 1)]_vars

\* C20 (as claimed): for a source of positive dimensions and a positive maxSize,
\* both dimensions getScaledImageData computes are >= 1
C20_PositiveDims ==
    (pc \in {"prng", "catch"} /\ imageAccessed) => (width >= 1 /\ height >= 1)

\* C21 (as claimed): storing a point in samplePoisson's grid never replaces a
\* point stored before, so every point of the active list is still in the grid
\* and so is in the returned set
C21_NoOverwrite ==
    /\ [][pc # "sample" => \A i \in DOMAIN grid : i \in DOMAIN grid' /\ grid'[i] = grid[i]]_vars
    /\ [](pc \in {"poisson_pick", "poisson_try"} =>
              \A k \in 1..Len(active) : \E i \in DOMAIN grid : grid[i] = active[k])

\* C22 (as claimed): whenever handleGenerate calls generateLowPolyData, the
\* name it passes is the name of the image in sourceImage, so a result's
\* source names the image the result's size comes from
C22_SourceNamesImage ==
    /\ [][(isLoading' /\ ~isLoading) => sourceImage = ImageOf(sourceFileName)]_vars
    /\ [](lowPolyData # NoData =>
              LET img == ImageOf(lowPolyData.image.source)
                  dims == ScaledDims(img.width, img.height, AppMaxSize)
              IN  lowPolyData.image.width = dims[1] /\ lowPolyData.image.height = dims[2])

\* C23 (as claimed): error and lowPolyData are never both set, and a
\* generation that set isLoading sets it back to false with exactly one of
\* lowPolyData and error set
C23_ErrorXorData ==
    /\ [](~(error # NoError /\ lowPolyData # NoData))
    /\ [][(isLoading /\ ~isLoading') => ((error' # NoError) # (lowPolyData' # NoData))]_vars
    /\ (isLoading ~> ~isLoading)
====
